---- MODULE Spec2Model ----
(***************************************************************************)
(* Model of custom_components/amazon_rekognition/image_processing.py:      *)
(* FaceRecognitionEntity, one entity, one process_image call per step.     *)
(*                                                                         *)
(* Python's None is the empty tuple and a present optional value x is the  *)
(* one-element tuple <<x>>.  Similarities are integers in thousandths of a *)
(* percent (95234 is 95.234); a rounded similarity is in hundredths.       *)
(* Exception messages are tuples of one-character strings.                 *)
(***************************************************************************)
EXTENDS Integers, Sequences, FiniteSets, TLC

VARIABLES
    similarity_threshold,     \* self._similarity_threshold
    save_file_folder,         \* self._save_file_folder (None or a Path)
    save_timestamped_file,    \* self._save_timestamped_file
    always_save_latest_file,  \* self._always_save_latest_file
    state,                    \* self._state
    matches,                  \* self._matches
    last_detection,           \* self._last_detection
    image,                    \* self._image
    now,                      \* the wall clock read by dt_util.now()
    events,                   \* events fired on hass.bus by the last call
    apiLog,                   \* which log branch the last call took
    remoteCalled,             \* the last call invoked search_faces_by_image
    saveInvoked,              \* the last call invoked _save_annotated_image
    writeAttempts,            \* img.save calls made by the last call
    filesWritten,             \* img.save calls of the last call that succeeded
    raised,                   \* the last call ended by an exception
    lastFrame,                \* input of the last call: the camera frame
    lastOutcome,              \* input of the last call: what the client did
    lastResponse,             \* the response the client returned (if any)
    lastDisk                  \* input of the last call: would img.save succeed

vars == <<similarity_threshold, save_file_folder, save_timestamped_file,
          always_save_latest_file, state, matches, last_detection, image,
          now, events, apiLog, remoteCalled, saveInvoked, writeAttempts,
          filesWritten, raised, lastFrame, lastOutcome, lastResponse,
          lastDisk>>

None == <<>>

Some(x) == <<x>>

----------------------------------------------------------------------------
(* Bounds *)

MaxCycles == 2

MaxFound == 4

----------------------------------------------------------------------------
(* Program constants *)

MaxFaces == 3

EVENT_FACE_RECOGNISED == "rekognition.face_recognised"

entity_id == "image_processing.rekognition_face_front_door"

object_id == "rekognition_face_front_door"

save_file_format == "jpg"

Thresholds == {50000, 90000}

----------------------------------------------------------------------------
(* Text: str.lower() and the `in` operator on strings *)

UpperChars ==
    <<"A","B","C","D","E","F","G","H","I","J","K","L","M","N","O","P","Q","R","S","T","U","V","W","X","Y","Z">>

LowerChars ==
    <<"a","b","c","d","e","f","g","h","i","j","k","l","m","n","o","p","q","r","s","t","u","v","w","x","y","z">>

LowerChar(c) ==
    IF \E i \in 1..Len(UpperChars) : UpperChars[i] = c
    THEN LowerChars[CHOOSE i \in 1..Len(UpperChars) : UpperChars[i] = c]
    ELSE c

Lower(s) == [i \in 1..Len(s) |-> LowerChar(s[i])]

Contains(hay, needle) ==
    \E i \in 0..(Len(hay) - Len(needle)) :
        SubSeq(hay, i + 1, i + Len(needle)) = needle

Phrase1 ==
    <<"n","o"," ","f","a","c","e","s"," ","i","n"," ","t","h","e"," ","i","m","a","g","e">>

Phrase2 ==
    <<"t","h","e","r","e"," ","a","r","e"," ","n","o"," ","f","a","c","e","s"," ","i","n"," ","t","h","e"," ","i","m","a","g","e">>

MsgNoFacesAws ==
    <<"T","h","e","r","e"," ","a","r","e"," ","n","o"," ","f","a","c","e","s"," ","i","n"," ","t","h","e"," ","i","m","a","g","e",".">>

MsgNoFacesUpper ==
    <<"N","O"," ","F","A","C","E","S"," ","I","N"," ","T","H","E"," ","I","M","A","G","E">>

MsgInvalidParam ==
    <<"R","e","q","u","e","s","t"," ","h","a","s"," ","i","n","v","a","l","i","d"," ","p","a","r","a","m","e","t","e","r","s">>

MsgNearMiss ==
    <<"n","o"," ","f","a","c","e","s"," ","i","n"," ","i","m","a","g","e">>

Messages == {MsgNoFacesAws, MsgNoFacesUpper, MsgInvalidParam, MsgNearMiss}

ExceptionKinds == {"InvalidParameterException", "Exception"}

----------------------------------------------------------------------------
(* The remote service *)

Box == [Top |-> 10, Left |-> 20, Height |-> 30, Width |-> 40]

Faces ==
    { [Similarity |-> 95234,
       Face |-> [ExternalImageId |-> "alice", FaceId |-> "f1", BoundingBox |-> Some(Box)]],
      [Similarity |-> 89995,
       Face |-> [ExternalImageId |-> "bob", FaceId |-> "f3", BoundingBox |-> None]] }

RECURSIVE SelectSeq2(_, _)
SelectSeq2(s, thr) ==
    IF s = <<>> THEN <<>>
    ELSE IF Head(s).Similarity >= thr
         THEN <<Head(s)>> \o SelectSeq2(Tail(s), thr)
         ELSE SelectSeq2(Tail(s), thr)

Truncate(s, n) == IF Len(s) > n THEN SubSeq(s, 1, n) ELSE s

\* SearchFacesByImage honours the FaceMatchThreshold and MaxFaces it is sent.
search_faces_by_image(found, FaceMatchThreshold, maxFaces) ==
    [FaceMatches |-> Truncate(SelectSeq2(found, FaceMatchThreshold), maxFaces)]

RECURSIVE SeqsUpTo(_, _)
SeqsUpTo(S, n) ==
    IF n = 0 THEN {<<>>}
    ELSE LET shorter == SeqsUpTo(S, n - 1)
         IN  shorter \cup {Append(s, x) : s \in shorter, x \in S}

Outcomes ==
    [kind : {"ok"}, found : SeqsUpTo(Faces, MaxFound), msg : {<<>>}]
    \cup [kind : ExceptionKinds, found : {<<>>}, msg : Messages]

Frames == [decodable : BOOLEAN]

Disks ==
    { [latestOk |-> TRUE,  timestampedOk |-> TRUE],
      [latestOk |-> FALSE, timestampedOk |-> TRUE],
      [latestOk |-> TRUE,  timestampedOk |-> FALSE] }

----------------------------------------------------------------------------
(* process_image: interpreting the response *)

\* round(similarity, 2): thousandths to hundredths, ties to the even digit.
Round2(sim) ==
    LET q == sim \div 10
        r == sim % 10
    IN  IF r < 5 THEN q
        ELSE IF r > 5 THEN q + 1
        ELSE IF q % 2 = 0 THEN q ELSE q + 1

BuildMatch(match) ==
    [external_image_id |-> match.Face.ExternalImageId,
     face_id           |-> match.Face.FaceId,
     similarity        |-> Round2(match.Similarity),
     bounding_box      |-> match.Face.BoundingBox]

BuildMatches_DropLast(FaceMatches) ==
    IF FaceMatches = <<>> THEN <<>>
    ELSE [i \in 1..(Len(FaceMatches) - 1) |-> BuildMatch(FaceMatches[i])]

BuildMatches(FaceMatches) ==
    [i \in 1..Len(FaceMatches) |-> BuildMatch(FaceMatches[i])]

SuccessLog(st) == IF st > 0 THEN "matched" ELSE "no_match"

IsNoFacesMessage(msg) ==
    LET error_message == Lower(msg)
    IN  Contains(error_message, Phrase1) \/ Contains(error_message, Phrase2)

ClassifyFailure_ByMessageOnly(kind, msg) ==
    IF IsNoFacesMessage(msg) THEN "no_faces"
    ELSE IF kind = "InvalidParameterException" THEN "invalid_parameter_error"
    ELSE "generic_error"

ClassifyFailure(kind, msg) ==
    IF kind = "InvalidParameterException"
    THEN IF IsNoFacesMessage(msg) THEN "no_faces" ELSE "invalid_parameter_error"
    ELSE "generic_error"

LogLevel(tag) ==
    IF tag \in {"invalid_parameter_error", "generic_error"} THEN "error" ELSE "info"

Caught_OnlyInvalidParameter(kind) == kind = "InvalidParameterException"

\* `except Exception` is the last handler: every failure of the call is caught.
Caught(kind) == kind \in ExceptionKinds

FailureMatches_Keep(old) == old

FailureMatches(old) == <<>>

FailureState(old) == Some(0)

----------------------------------------------------------------------------
(* process_image: events *)

isoformat(t) == <<"iso", t>>

ShouldFire(st) == st # None /\ st[1] > 0

NextLastDetection_Reset(st, old, t) == IF ShouldFire(st) THEN Some(isoformat(t)) ELSE None

NextLastDetection(st, old, t) == IF ShouldFire(st) THEN Some(isoformat(t)) ELSE old

EventData(match_data, ts) ==
    [external_image_id |-> match_data.external_image_id,
     face_id           |-> match_data.face_id,
     similarity        |-> match_data.similarity,
     bounding_box      |-> match_data.bounding_box,
     entity_id         |-> entity_id,
     timestamp         |-> ts]

FireEvents_Reversed(ms, ts) ==
    [i \in 1..Len(ms) |->
        [type |-> EVENT_FACE_RECOGNISED, data |-> EventData(ms[Len(ms) + 1 - i], ts)]]

FireEvents(ms, ts) ==
    [i \in 1..Len(ms) |-> [type |-> EVENT_FACE_RECOGNISED, data |-> EventData(ms[i], ts)]]

----------------------------------------------------------------------------
(* process_image: the save stage, and _save_annotated_image *)

strftime(t) == <<"Y-m-d_H.M.S", t>>

FilenameLatest == <<object_id, "latest", save_file_format>>

FilenameTimestamped(t) == <<object_id, strftime(t), save_file_format>>

ShouldSave_MatchesOnly(folder, ms, always) == folder # None /\ Len(ms) > 0

ShouldSave(folder, ms, always) == folder # None /\ (Len(ms) > 0 \/ always)

NoSave == [attempts |-> <<>>, written |-> <<>>, raised |-> FALSE]

\* img.save is not guarded: a failing write raises out of the routine.
save_annotated_image(img, ms, timestamped, disk, t) ==
    IF img = None THEN NoSave
    ELSE IF ~disk.latestOk
         THEN [attempts |-> <<FilenameLatest>>, written |-> <<>>, raised |-> TRUE]
    ELSE IF Len(ms) > 0 /\ timestamped
         THEN [attempts |-> <<FilenameLatest, FilenameTimestamped(t)>>,
               written  |-> IF disk.timestampedOk
                            THEN <<FilenameLatest, FilenameTimestamped(t)>>
                            ELSE <<FilenameLatest>>,
               raised   |-> ~disk.timestampedOk]
    ELSE [attempts |-> <<FilenameLatest>>, written |-> <<FilenameLatest>>, raised |-> FALSE]

----------------------------------------------------------------------------
(* The entity *)

extra_state_attributes ==
    [collection_id         |-> "homeassistant_faces",
     similarity_threshold  |-> similarity_threshold,
     matches               |-> matches,
     last_face_recognition |-> last_detection]

Init ==
    /\ similarity_threshold \in Thresholds
    /\ save_file_folder \in {None, Some("/config/www/rekognition")}
    /\ save_timestamped_file \in BOOLEAN
    /\ always_save_latest_file \in BOOLEAN
    /\ state = None
    /\ matches = <<>>
    /\ last_detection = None
    /\ image = None
    /\ now = 0
    /\ events = <<>>
    /\ apiLog = "none"
    /\ remoteCalled = FALSE
    /\ saveInvoked = FALSE
    /\ writeAttempts = <<>>
    /\ filesWritten = <<>>
    /\ raised = FALSE
    /\ lastFrame = None
    /\ lastOutcome = None
    /\ lastResponse = None
    /\ lastDisk = None

process_image(frame, outcome, disk) ==
    LET t        == now + 1
        ok       == outcome.kind = "ok"
        response == search_faces_by_image(outcome.found, similarity_threshold, MaxFaces)
        escaped  == ~ok /\ ~Caught(outcome.kind)
        ms       == IF ok THEN BuildMatches(response.FaceMatches)
                    ELSE IF escaped THEN matches
                    ELSE FailureMatches(matches)
        st       == IF ok THEN Some(Len(ms))
                    ELSE IF escaped THEN state
                    ELSE FailureState(state)
        tag      == IF ok THEN SuccessLog(st[1])
                    ELSE IF escaped THEN "none"
                    ELSE ClassifyFailure(outcome.kind, outcome.msg)
        ld       == IF escaped THEN last_detection
                    ELSE NextLastDetection(st, last_detection, t)
        ev       == IF ~escaped /\ ShouldFire(st) THEN FireEvents(ms, ld[1]) ELSE <<>>
        save     == ~escaped /\ ShouldSave(save_file_folder, ms, always_save_latest_file)
        sv       == IF save
                    THEN save_annotated_image(image, ms, save_timestamped_file, disk, t)
                    ELSE NoSave
    IN  /\ now < MaxCycles
        /\ now' = t
        /\ remoteCalled' = TRUE
        /\ matches' = ms
        /\ state' = st
        /\ apiLog' = tag
        /\ last_detection' = ld
        /\ events' = ev
        /\ saveInvoked' = save
        /\ writeAttempts' = sv.attempts
        /\ filesWritten' = sv.written
        /\ raised' = (escaped \/ sv.raised)
        /\ lastFrame' = Some(frame)
        /\ lastOutcome' = Some([kind |-> outcome.kind, msg |-> outcome.msg])
        /\ lastResponse' = IF ok THEN Some(response) ELSE None
        /\ lastDisk' = Some(disk)
        /\ UNCHANGED <<similarity_threshold, save_file_folder, save_timestamped_file,
                       always_save_latest_file, image>>

Next == \E frame \in Frames, outcome \in Outcomes, disk \in Disks :
            process_image(frame, outcome, disk)

Spec == Init /\ [][Next]_vars

----------------------------------------------------------------------------
(* Properties *)

Called == now > 0

Succeeded == Called /\ lastResponse # None

Failed == Called /\ lastOutcome[1].kind \in ExceptionKinds

\* The messages of Messages that contain "no faces in the image" in some case.
NoFacesMessages == {MsgNoFacesAws, MsgNoFacesUpper}

NoFacesCase == Failed /\ lastOutcome[1].msg \in NoFacesMessages

AboveThreshold(FaceMatches) ==
    Cardinality({i \in 1..Len(FaceMatches) :
                    FaceMatches[i].Similarity >= similarity_threshold})

\* C1: after a successful response with N matches at or above the threshold,
\* state is N and exactly N events were fired (none when N is 0).
C1_CountAndEvents ==
    Succeeded =>
        LET N == AboveThreshold(lastResponse[1].FaceMatches)
        IN  /\ state = Some(N)
            /\ Len(events) = N
            /\ \A i \in 1..Len(events) : events[i].type = EVENT_FACE_RECOGNISED

C1_Witness ==
    /\ Succeeded
    /\ AboveThreshold(lastResponse[1].FaceMatches) = 2
    /\ Len(events) = 2

\* C2: a frame that is not a decodable image short-circuits the call: no remote
\* search, no file written, no event fired.
C2_UndecodableShortCircuits ==
    (Called /\ ~lastFrame[1].decodable) =>
        /\ ~remoteCalled
        /\ writeAttempts = <<>>
        /\ events = <<>>

\* C3: with a save folder, a decodable frame and a working disk, always-save
\* with zero matches writes just the latest file, and matches with
\* timestamped-save write the latest and a timestamped file, distinct names.
C3_SavedFiles ==
    (Called /\ save_file_folder # None /\ lastFrame[1].decodable
            /\ lastDisk[1].latestOk /\ lastDisk[1].timestampedOk) =>
        /\ (always_save_latest_file /\ Len(matches) = 0)
              => filesWritten = <<FilenameLatest>>
        /\ (Len(matches) > 0 /\ save_timestamped_file)
              => /\ Len(filesWritten) = 2
                 /\ filesWritten[1] = FilenameLatest
                 /\ filesWritten[2] # FilenameLatest

ZeroResult == state = Some(0) /\ matches = <<>> /\ events = <<>>

\* C4 as claimed: any failure whose message contains the phrase is the no-faces
\* case, any other failure is logged as an error; both leave a zero result.
C4_ClassifiedByMessage ==
    Failed =>
        /\ ZeroResult
        /\ NoFacesCase => apiLog = "no_faces"
        /\ ~NoFacesCase => (LogLevel(apiLog) = "error" /\ apiLog # "no_faces")

\* C4 amended: a failure is the no-faces case exactly when it is an
\* InvalidParameterException whose message contains the phrase; every other
\* failure is logged as an error; all failures leave a zero result.
C4_ClassifiedByKindAndMessage ==
    Failed =>
        LET soft == NoFacesCase /\ lastOutcome[1].kind = "InvalidParameterException"
        IN  /\ ZeroResult
            /\ soft => (apiLog = "no_faces" /\ LogLevel(apiLog) = "info")
            /\ ~soft => (LogLevel(apiLog) = "error" /\ apiLog # "no_faces")

C4_Witness ==
    /\ NoFacesCase
    /\ lastOutcome[1].msg = MsgNoFacesUpper
    /\ lastOutcome[1].kind = "InvalidParameterException"
    /\ apiLog = "no_faces"
    /\ last_detection # None

C6_TimestampReplaced ==
    (Called /\ Len(extra_state_attributes.matches) = 0) =>
        extra_state_attributes.last_face_recognition = None

\* C6 amended: every call replaces the match count and the match list by its
\* own; the timestamp is replaced by a call with matches and kept by a call
\* without.
C6_ResultReplacedTimestampKept ==
    [][ /\ Len(matches') = (IF lastResponse' # None
                            THEN Len(lastResponse'[1].FaceMatches) ELSE 0)
        /\ state' = Some(Len(matches'))
        /\ Len(matches') > 0 => last_detection' = Some(isoformat(now'))
        /\ Len(matches') = 0 => last_detection' = last_detection ]_vars

C6_Witness ==
    /\ now >= 2
    /\ Len(matches) = 0
    /\ last_detection # None
    /\ last_detection # Some(isoformat(now))

BothWritesDue ==
    /\ Called
    /\ save_file_folder # None
    /\ lastFrame[1].decodable
    /\ Len(matches) > 0
    /\ save_timestamped_file

InSeq(x, s) == \E i \in 1..Len(s) : s[i] = x

\* C7: when both writes are due, a failing latest write still lets the
\* timestamped write be attempted, and a failing timestamped write leaves the
\* latest file written.
C7_IndependentWrites ==
    BothWritesDue =>
        /\ ~lastDisk[1].latestOk => InSeq(FilenameTimestamped(now), writeAttempts)
        /\ ~lastDisk[1].timestampedOk => InSeq(FilenameLatest, filesWritten)

\* C8: the events of a call follow the response match by match, in its order,
\* duplicates included, and all carry the one timestamp taken in that call.
C8_EventsFollowResponse ==
    Succeeded =>
        LET fm == lastResponse[1].FaceMatches
        IN  /\ Len(events) = Len(fm)
            /\ \A i \in 1..Len(fm) :
                  /\ events[i].data.external_image_id = fm[i].Face.ExternalImageId
                  /\ events[i].data.face_id = fm[i].Face.FaceId
                  /\ events[i].data.bounding_box = fm[i].Face.BoundingBox
                  /\ events[i].data.entity_id = entity_id
                  /\ events[i].data.timestamp = isoformat(now)

C8_Witness ==
    /\ Succeeded
    /\ Len(events) = 3
    /\ events[1].data.external_image_id = "bob"
    /\ events[2].data.external_image_id = "alice"
    /\ events[3].data.external_image_id = "bob"
    /\ events[1].data.timestamp = events[3].data.timestamp

\* C9: after a failure that is not the no-faces case the save routine is
\* invoked exactly when a folder is configured and always-save is on, and no
\* event is fired.
C9_SaveStageAfterHardError ==
    (Failed /\ ~(NoFacesCase /\ lastOutcome[1].kind = "InvalidParameterException")) =>
        /\ saveInvoked = (save_file_folder # None /\ always_save_latest_file)
        /\ events = <<>>

C9_Witness ==
    /\ Failed
    /\ lastOutcome[1].msg = MsgInvalidParam
    /\ saveInvoked
    /\ events = <<>>

\* C10: once a call has completed state is a natural number, the length of
\* the match list; it is None only before the first call, with no matches.
C10_StateIsMatchCount ==
    /\ Called => (state # None /\ state[1] \in Nat /\ state[1] = Len(matches))
    /\ state = None => (~Called /\ matches = <<>>)

C10_Witness ==
    /\ now >= 2
    /\ Failed
    /\ state = Some(0)
    /\ Len(matches) = 0
    /\ last_detection = Some(isoformat(now - 1))

====
